---- MODULE Spec2Model ----
(***************************************************************************)
(* Model of limiter.py: the Limiter class, its three rate algorithms and   *)
(* the expiring key-value database it reads and writes.                    *)
(*                                                                         *)
(* Modelling conventions                                                   *)
(*  - Python floats are exact rationals <<n, d>> with d > 0, kept in lowest *)
(*    terms; the inputs are small dyadic values and whole seconds, on which *)
(*    float arithmetic and its comparisons are exact.                      *)
(*  - Python's None and an absent record are the empty sequence <<>>; a    *)
(*    present value v is <<v>>.  The record tuple (x, last, excesses,      *)
(*    status) is the 4-tuple <<x, last, excesses, status>>.                *)
(*  - The missing client identifier (None) is the string NoneId.           *)
(*  - The variable stage tells how far the program got: the module level  *)
(*    code raises unless the names locale and logging resolve and the      *)
(*    locale en_US is installed, and only then is there a Limiter.         *)
(*  - The variable database is self._database: None from __init__ on, as   *)
(*    the source leaves it, until the embedding program assigns the        *)
(*    attribute an expiring key-value store, whose contents then are       *)
(*    records left there by earlier writers.                               *)
(*  - The variable call holds the frame of the last incrementRate call:    *)
(*    its argument, its local variables at the point it ended, the number  *)
(*    of database reads and writes it made, and how it ended.              *)
(*  - Spec runs the calls one after the other.  SpecConc runs two callers   *)
(*    at once against the same database; the variable procs holds, for     *)
(*    each caller, where its call stands: a call is two steps there, the   *)
(*    one up to the _get and the permanent block test, and the one from    *)
(*    time.time() to the return.                                           *)
(***************************************************************************)
EXTENDS Integers, Sequences, FiniteSets, TLC

VARIABLES stage, ALGORITHM_ID, database, now, ticks, call, procs

vars == <<stage, ALGORITHM_ID, database, now, ticks, call, procs>>

(***************************************************************************)
(* Constants of limiter.py                                                 *)
(***************************************************************************)
STATUS_NO_BLOCK == 0
STATUS_SHORT_BLOCK == 1
STATUS_EXTENDED_BLOCK == 2

_A1_ALGORITHM_ID == 1
_A1_MAXIMUM_RATE == 4
_A1_MAXIMUM_EXCESSES == 30
_A1_EXTENDED_BLOCK_EXPIRATION == 21600
_A1_EXPIRATION == 3600

_ALGORITHM_ID_A2 == 2
_A2_REQUESTS == 10
_A2_PERIOD == 5
_A2_MAXIMUM_EXCESSES == 30
_A2_EXTENDED_BLOCK_EXPIRATION == (60 * 60 * 6)
_A2_EXPIRATION == 3600

_A3_ALGORITHM_ID == 3

(***************************************************************************)
(* Bounds of the model                                                     *)
(***************************************************************************)
\* Number of times the clock advances in one behaviour.
MaxTicks == 3

(***************************************************************************)
(* Float arithmetic, as exact rationals                                    *)
(***************************************************************************)
Abs(i) == IF i < 0 THEN -i ELSE i

RECURSIVE GCD(_, _)
GCD(a, b) == IF b = 0 THEN a ELSE GCD(b, a % b)

\* The rational n/d (d # 0) in lowest terms with a positive denominator.
Rat(n, d) ==
    LET g == GCD(Abs(n), Abs(d))
        s == IF d < 0 THEN -1 ELSE 1
    IN  <<(s * n) \div g, (s * d) \div g>>

RatOfInt(i) == <<i, 1>>

RatAdd(r, q) == Rat(r[1] * q[2] + q[1] * r[2], r[2] * q[2])

RatSub(r, q) == Rat(r[1] * q[2] - q[1] * r[2], r[2] * q[2])

RatMul(r, q) == Rat(r[1] * q[1], r[2] * q[2])

\* r / q, for q # 0
RatDiv(r, q) == Rat(r[1] * q[2], r[2] * q[1])

RatLT(r, q) == r[1] * q[2] < q[1] * r[2]

RatGE(r, q) == ~RatLT(r, q)

RatGT(r, q) == RatLT(q, r)

\* _A2_ALLOWANCE = (_A2_REQUESTS / _A2_PERIOD)
_A2_ALLOWANCE == Rat(_A2_REQUESTS, _A2_PERIOD)

(***************************************************************************)
(* Python values                                                           *)
(***************************************************************************)
None == <<>>

\* The None client identifier, among the string identifiers.
NoneId == "<None>"

\* `not x` for a client identifier or key: None and the empty string.
Falsy(x) == x = NoneId \/ x = ""

\* The attribute self.clientIdentifier of a Limiter: __init__ sets
\* self._database only, so the instance has no such attribute.
self_clientIdentifier == None

\* The module-level name rate: the module defines no such global.
global_rate == None

(***************************************************************************)
(* The database: an expiring key-value store.  An entry holds the value    *)
(* that was set and the time at which it expires; an expired entry is      *)
(* absent to get.  db is a store here, never None.                         *)
(***************************************************************************)
\* self._database.get(key)
DatabaseGet(db, key, t) ==
    IF key \in DOMAIN db /\ db[key] # None /\ t < db[key][1].expires
    THEN <<db[key][1].data>>
    ELSE None

\* self._database.set(key, value, expiration=expiration)
DatabaseSet(db, key, value, expiration, t) ==
    [db EXCEPT ![key] = <<[data |-> value, expires |-> t + expiration]>>]

(***************************************************************************)
(* Limiter._get and Limiter._set                                           *)
(***************************************************************************)
\* db is self._database: None, or a store.
_get(db, key, t) ==
    IF Falsy(key)
    THEN [raised |-> "ValueError: Missing or invalid key", value |-> None, reads |-> 0]
    ELSE IF db = None
    THEN [raised |-> "AttributeError: 'NoneType' object has no attribute 'get'",
          value |-> None, reads |-> 0]
    ELSE [raised |-> "", value |-> DatabaseGet(db, key, t), reads |-> 1]

_set(db, key, value, expiration, t) ==
    IF Falsy(key)
    THEN [raised |-> "ValueError: Missing or invalid key", db |-> db, writes |-> 0]
    ELSE IF db = None
    THEN [raised |-> "AttributeError: 'NoneType' object has no attribute 'set'",
          db |-> db, writes |-> 0]
    ELSE [raised |-> "", db |-> DatabaseSet(db, key, value, expiration, t), writes |-> 1]

(***************************************************************************)
(* The frame of an incrementRate call when it ends.                        *)
(*   data       what _get returned (None before the read)                  *)
(*   timed      whether time.time() was read and the new value computed    *)
(*   x          the local rate (algorithm 1) or allowance (algorithm 2)    *)
(*   ret        <<status>> when the call returned, None when it raised     *)
(***************************************************************************)
Frame(cid, data, timed, x, last, excesses, status, expiration, reads, writes, raised, ret) ==
    [op |-> "incrementRate", client |-> cid, data |-> data, timed |-> timed,
     x |-> x, last |-> last, excesses |-> excesses, status |-> status,
     expiration |-> expiration, reads |-> reads, writes |-> writes,
     raised |-> raised, ret |-> ret]

\* A call that ended before any local of an algorithm was set.
BareFrame(cid, raised, ret) ==
    Frame(cid, None, FALSE, RatOfInt(0), 0, 0, STATUS_NO_BLOCK, 0, 0, 0, raised, ret)

NoCall == [BareFrame("", "", None) EXCEPT !.op = "none"]

(***************************************************************************)
(* Algorithm 1: Limiter._A1_incrementRate                                  *)
(***************************************************************************)
\* The permanent block test, made against the wrong status.
_A1_PermanentBlock_ShortBlock(data) ==
    data # None /\ data[1][4] = STATUS_SHORT_BLOCK

\* if data: ... if status == STATUS_EXTENDED_BLOCK: return status
_A1_PermanentBlock(data) ==
    data # None /\ data[1][4] = STATUS_EXTENDED_BLOCK

\* rate = (1 + rate) / ((now - last) + 1), for (now - last) + 1 # 0
_A1_Rate(rate, last, t) ==
    RatDiv(RatAdd(RatOfInt(1), rate), RatOfInt((t - last) + 1))

\* if rate >= _A1_MAXIMUM_RATE: if status == STATUS_NO_BLOCK: excesses += 1
_A1_Excesses(rate, excesses, status) ==
    IF RatGE(rate, RatOfInt(_A1_MAXIMUM_RATE)) /\ status = STATUS_NO_BLOCK
    THEN excesses + 1
    ELSE excesses

\* The status after the maximum rate test; excesses is already incremented.
\* Below the maximum rate the status is left as it was read.
_A1_Status(rate, excesses, status) ==
    IF RatGE(rate, RatOfInt(_A1_MAXIMUM_RATE))
    THEN IF _A1_MAXIMUM_EXCESSES # -1 /\ excesses > _A1_MAXIMUM_EXCESSES
         THEN STATUS_EXTENDED_BLOCK
         ELSE STATUS_SHORT_BLOCK
    ELSE status

_A1_Expiration(status) ==
    IF status = STATUS_EXTENDED_BLOCK
    THEN _A1_EXTENDED_BLOCK_EXPIRATION
    ELSE _A1_EXPIRATION

\* The part of _A1_incrementRate after the permanent block test: data is
\* what _get returned (reads database reads ago), t is time.time().
_A1_AfterGet(db, cid, data, reads, t) ==
    LET \* initial values, overwritten by the unpacked data
        rate0 == IF data # None THEN data[1][1] ELSE RatOfInt(0)
        last0 == IF data # None THEN data[1][2] ELSE 0
        excesses0 == IF data # None THEN data[1][3] ELSE 0
        status0 == IF data # None THEN data[1][4] ELSE STATUS_NO_BLOCK
    IN  IF (t - last0) + 1 = 0
        THEN [db |-> db,
              frame |-> Frame(cid, data, TRUE, rate0, last0, excesses0, status0,
                              0, reads, 0, "ZeroDivisionError", None)]
        ELSE
        LET rate == _A1_Rate(rate0, last0, t)
            excesses == _A1_Excesses(rate, excesses0, status0)
            status == _A1_Status(rate, excesses, status0)
            expiration == _A1_Expiration(status)
        IN  \* self._set(self.clientIdentifier, (rate, now, excesses, status), expiration)
            IF self_clientIdentifier = None
            THEN [db |-> db,
                  frame |-> Frame(cid, data, TRUE, rate, last0, excesses, status,
                                  expiration, reads, 0,
                                  "AttributeError: 'Limiter' object has no attribute 'clientIdentifier'",
                                  None)]
            ELSE
            LET w == _set(db, self_clientIdentifier[1], <<rate, t, excesses, status>>,
                          expiration, t)
            IN  [db |-> w.db,
                 frame |-> Frame(cid, data, TRUE, rate, last0, excesses, status,
                                 expiration, reads, w.writes, w.raised,
                                 IF w.raised = "" THEN <<status>> ELSE None)]

_A1_incrementRate(db, cid, t) ==
    LET g == _get(db, cid, t)
        data == g.value
    IN  IF g.raised # ""
        THEN \* rate, last, excesses, status = (0, 0, 0, STATUS_NO_BLOCK)
             [db |-> db,
              frame |-> Frame(cid, None, FALSE, RatOfInt(0), 0, 0, STATUS_NO_BLOCK,
                              0, g.reads, 0, g.raised, None)]
        ELSE IF _A1_PermanentBlock(data)
        THEN [db |-> db,
              frame |-> Frame(cid, data, FALSE, data[1][1], data[1][2], data[1][3],
                              data[1][4], 0, g.reads, 0, "", <<data[1][4]>>)]
        ELSE _A1_AfterGet(db, cid, data, g.reads, t)

(***************************************************************************)
(* Algorithm 2: Limiter._A2_incrementRate                                  *)
(***************************************************************************)
_A2_PermanentBlock(data) ==
    data # None /\ data[1][4] = STATUS_EXTENDED_BLOCK

\* The replenishment, without the cap.
_A2_Replenish_NoCap(allowance, last, t) ==
    RatAdd(allowance, RatMul(RatOfInt(t - last), _A2_ALLOWANCE))

\* allowance += (now - last) * _A2_ALLOWANCE, then capped at _A2_REQUESTS
_A2_Replenish(allowance, last, t) ==
    LET a == RatAdd(allowance, RatMul(RatOfInt(t - last), _A2_ALLOWANCE))
    IN  IF RatGT(a, RatOfInt(_A2_REQUESTS)) THEN RatOfInt(_A2_REQUESTS) ELSE a

\* allowance is the replenished, capped allowance
_A2_Excesses(allowance, excesses, status) ==
    IF RatLT(allowance, RatOfInt(1)) /\ status = STATUS_NO_BLOCK
    THEN excesses + 1
    ELSE excesses

_A2_Status(allowance, excesses, status) ==
    IF RatLT(allowance, RatOfInt(1))
    THEN IF _A2_MAXIMUM_EXCESSES # -1 /\ excesses > _A2_MAXIMUM_EXCESSES
         THEN STATUS_EXTENDED_BLOCK
         ELSE STATUS_SHORT_BLOCK
    ELSE STATUS_NO_BLOCK

\* else: ... allowance -= 1.0
_A2_Spend(allowance) ==
    IF RatLT(allowance, RatOfInt(1))
    THEN allowance
    ELSE RatSub(allowance, RatOfInt(1))

_A2_Expiration(status) ==
    IF status = STATUS_EXTENDED_BLOCK
    THEN _A2_EXTENDED_BLOCK_EXPIRATION
    ELSE _A2_EXPIRATION

\* The part of _A2_incrementRate after the permanent block test: data is
\* what _get returned (reads database reads ago), t is time.time().
_A2_AfterGet(db, cid, data, reads, t) ==
    LET \* initial values, overwritten by the unpacked data
        allowance0 == IF data # None THEN data[1][1] ELSE _A2_ALLOWANCE
        last0 == IF data # None THEN data[1][2] ELSE 0
        excesses0 == IF data # None THEN data[1][3] ELSE 0
        status0 == IF data # None THEN data[1][4] ELSE STATUS_NO_BLOCK
        capped == _A2_Replenish(allowance0, last0, t)
        excesses == _A2_Excesses(capped, excesses0, status0)
        status == _A2_Status(capped, excesses, status0)
        allowance == _A2_Spend(capped)
        expiration == _A2_Expiration(status)
    IN  \* self._set(clientIdentifier, (rate, now, excesses, status), expiration)
        IF global_rate = None
        THEN [db |-> db,
              frame |-> Frame(cid, data, TRUE, allowance, last0, excesses, status,
                              expiration, reads, 0,
                              "NameError: name 'rate' is not defined", None)]
        ELSE
        LET w == _set(db, cid, <<global_rate[1], t, excesses, status>>, expiration, t)
        IN  [db |-> w.db,
             frame |-> Frame(cid, data, TRUE, allowance, last0, excesses, status,
                             expiration, reads, w.writes, w.raised,
                             IF w.raised = "" THEN <<status>> ELSE None)]

_A2_incrementRate(db, cid, t) ==
    LET g == _get(db, cid, t)
        data == g.value
    IN  IF g.raised # ""
        THEN \* allowance, last, excesses, status = (_A2_ALLOWANCE, 0, 0, STATUS_NO_BLOCK)
             [db |-> db,
              frame |-> Frame(cid, None, FALSE, _A2_ALLOWANCE, 0, 0, STATUS_NO_BLOCK,
                              0, g.reads, 0, g.raised, None)]
        ELSE IF _A2_PermanentBlock(data)
        THEN [db |-> db,
              frame |-> Frame(cid, data, FALSE, data[1][1], data[1][2], data[1][3],
                              data[1][4], 0, g.reads, 0, "", <<data[1][4]>>)]
        ELSE _A2_AfterGet(db, cid, data, g.reads, t)

(***************************************************************************)
(* Limiter.incrementRate                                                   *)
(***************************************************************************)
\* The parameter check, made against the empty string only.
InvalidClientIdentifier_EmptyOnly(cid) == cid = ""

\* if not clientIdentifier
InvalidClientIdentifier(cid) == Falsy(cid)

\* The routing, with the no-limit algorithm sent to algorithm 2.
incrementRate_A3AsA2(db, cid, t, alg) ==
    IF InvalidClientIdentifier(cid)
    THEN [db |-> db,
          frame |-> BareFrame(cid, "ValueError: Missing or invalid client identifier", None)]
    ELSE IF alg = _A1_ALGORITHM_ID
    THEN _A1_incrementRate(db, cid, t)
    ELSE IF alg = _ALGORITHM_ID_A2 \/ alg = _A3_ALGORITHM_ID
    THEN _A2_incrementRate(db, cid, t)
    ELSE [db |-> db, frame |-> BareFrame(cid, "ValueError: No algorithm was selected", None)]

\* The routing, with no limit as the default instead of the error.
incrementRate_NoLimitDefault(db, cid, t, alg) ==
    IF InvalidClientIdentifier(cid)
    THEN [db |-> db,
          frame |-> BareFrame(cid, "ValueError: Missing or invalid client identifier", None)]
    ELSE IF alg = _A1_ALGORITHM_ID
    THEN _A1_incrementRate(db, cid, t)
    ELSE IF alg = _ALGORITHM_ID_A2
    THEN _A2_incrementRate(db, cid, t)
    ELSE [db |-> db, frame |-> BareFrame(cid, "", <<STATUS_NO_BLOCK>>)]

incrementRate(db, cid, t, alg) ==
    IF InvalidClientIdentifier(cid)
    THEN [db |-> db,
          frame |-> BareFrame(cid, "ValueError: Missing or invalid client identifier", None)]
    ELSE IF alg = _A1_ALGORITHM_ID
    THEN _A1_incrementRate(db, cid, t)
    ELSE IF alg = _ALGORITHM_ID_A2
    THEN _A2_incrementRate(db, cid, t)
    ELSE IF alg = _A3_ALGORITHM_ID
    THEN [db |-> db, frame |-> BareFrame(cid, "", <<STATUS_NO_BLOCK>>)]
    ELSE [db |-> db, frame |-> BareFrame(cid, "ValueError: No algorithm was selected", None)]

(***************************************************************************)
(* The module level code, run when limiter.py is imported                  *)
(***************************************************************************)
\* What the module finds around it: whether the names locale and logging
\* resolve (the module imports time only), and whether the locale en_US is
\* installed.
Environments == [locale : BOOLEAN, en_US : BOOLEAN, logging : BOOLEAN]

\* The exception the setup code raises, "" when it runs to its end:
\* locale.setlocale(locale.LC_ALL, 'en_US'), logging.basicConfig(...).
ModuleLevel(env) ==
    IF ~env.locale
    THEN "NameError: name 'locale' is not defined"
    ELSE IF ~env.en_US
    THEN "Error: unsupported locale setting"
    ELSE IF ~env.logging
    THEN "NameError: name 'logging' is not defined"
    ELSE ""

(***************************************************************************)
(* Inputs                                                                  *)
(***************************************************************************)
\* Client identifiers that pass the parameter check.
Clients == {"a", "b"}

\* Every argument incrementRate is called with.
Identifiers == Clients \cup {"", NoneId}

\* The algorithm selections: the three algorithm IDs and one that is none of them.
AlgorithmIds == {0, _A1_ALGORITHM_ID, _ALGORITHM_ID_A2, _A3_ALGORITHM_ID}

\* The clock when the limiter is constructed.
StartTime == 0

\* The amounts of seconds by which the clock advances between calls.
Steps == {1, 5, 1000, 3600, 21600}

\* Rates and allowances of the records found in a store that is attached.
StoredValues == {RatOfInt(0), Rat(1, 2), RatOfInt(3), RatOfInt(5)}

\* Their excesses and status: the extended block is set exactly when the
\* excesses are above the maximum.
StoredExcessesStatus ==
    {<<0, STATUS_NO_BLOCK>>, <<1, STATUS_SHORT_BLOCK>>,
     <<_A1_MAXIMUM_EXCESSES, STATUS_NO_BLOCK>>,
     <<_A1_MAXIMUM_EXCESSES, STATUS_SHORT_BLOCK>>,
     <<_A1_MAXIMUM_EXCESSES + 1, STATUS_EXTENDED_BLOCK>>}

\* The entries found in it were set at StartTime, with the expiration
\* that goes with their status.
StoredEntries ==
    {[data |-> <<x, StartTime, es[1], es[2]>>,
      expires |-> StartTime + _A1_Expiration(es[2])] :
        x \in StoredValues, es \in StoredExcessesStatus}

\* The stores the embedding program assigns to self._database.
Stores == [Clients -> {None} \cup {<<e>> : e \in StoredEntries}]

\* The callers of SpecConc, the client they all call for, and the amounts
\* of seconds by which the clock advances between their steps.
Procs == {1, 2}

ConcClient == "a"

ConcSteps == {1, 3600}

\* The stores of SpecConc hold no record of another client.
ConcStores == {s \in Stores : \A c \in Clients \ {ConcClient} : s[c] = None}

\* A caller that is in no call.
Idle == [pc |-> "idle", data |-> None, frame |-> NoCall]

(***************************************************************************)
(* The state machine                                                       *)
(***************************************************************************)
\* import limiter, then Limiter(), in some environment.  When the module
\* level code raises, stage is its exception: there is no module, and so no
\* Limiter, ever after.  When it does not, __init__ sets self._database =
\* None and nothing else.  ALGORITHM_ID is the value of _ALGORITHM_ID.
Init ==
    /\ stage \in {IF ModuleLevel(env) = "" THEN "constructed" ELSE ModuleLevel(env) :
                    env \in Environments}
    /\ ALGORITHM_ID \in AlgorithmIds
    /\ database = None
    /\ now = StartTime
    /\ ticks = 0
    /\ call = NoCall
    /\ procs = [p \in Procs |-> Idle]

\* The embedding program replaces the placeholder: it assigns a store to
\* the attribute _database of the Limiter.  The frame of a call that ended
\* before is dropped.
AttachDatabase(store) ==
    /\ stage = "constructed"
    /\ database = None
    /\ database' = store
    /\ call' = NoCall
    /\ UNCHANGED <<stage, ALGORITHM_ID, now, ticks, procs>>

\* One call of Limiter.incrementRate(clientIdentifier), time.time() being now.
IncrementRate(cid) ==
    LET r == incrementRate(database, cid, now, ALGORITHM_ID)
    IN  /\ stage = "constructed"
        /\ database' = r.db
        /\ call' = r.frame
        /\ UNCHANGED <<stage, ALGORITHM_ID, now, ticks, procs>>

\* Time passes between two calls; the frame of the call that ended is dropped.
Tick(d) ==
    /\ ticks < MaxTicks
    /\ now' = now + d
    /\ ticks' = ticks + 1
    /\ call' = NoCall
    /\ UNCHANGED <<stage, ALGORITHM_ID, database, procs>>

Next ==
    \/ \E store \in Stores : AttachDatabase(store)
    \/ \E cid \in Identifiers : IncrementRate(cid)
    \/ \E d \in Steps : Tick(d)

Spec == Init /\ [][Next]_vars

(***************************************************************************)
(* Concurrent callers.  Nothing makes a call atomic: between the _get of a *)
(* caller and its _set the other caller takes steps and the clock moves.   *)
(***************************************************************************)
\* Caller p enters incrementRate(ConcClient) and runs it up to the permanent
\* block test.  The call ends there when it raised, when it was not routed
\* to algorithm 1 or 2, or when it returned the stored extended block.
Begin(p) ==
    LET r == incrementRate(database, ConcClient, now, ALGORITHM_ID)
    IN  /\ stage = "constructed"
        /\ procs[p].pc \in {"idle", "done"}
        /\ procs' = [procs EXCEPT ![p] =
                       IF r.frame.timed
                       THEN [pc |-> "got", data |-> r.frame.data, frame |-> NoCall]
                       ELSE [pc |-> "done", data |-> r.frame.data, frame |-> r.frame]]
        /\ UNCHANGED <<stage, ALGORITHM_ID, database, now, ticks, call>>

\* Caller p runs the rest of its call, from time.time() on, with the data it
\* got and the database as it is now.
Finish(p) ==
    LET r == IF ALGORITHM_ID = _A1_ALGORITHM_ID
             THEN _A1_AfterGet(database, ConcClient, procs[p].data, 1, now)
             ELSE _A2_AfterGet(database, ConcClient, procs[p].data, 1, now)
    IN  /\ procs[p].pc = "got"
        /\ database' = r.db
        /\ procs' = [procs EXCEPT ![p] =
                       [pc |-> "done", data |-> procs[p].data, frame |-> r.frame]]
        /\ UNCHANGED <<stage, ALGORITHM_ID, now, ticks, call>>

\* Time passes between two steps of the callers.
Wait(d) ==
    /\ ticks < MaxTicks
    /\ now' = now + d
    /\ ticks' = ticks + 1
    /\ UNCHANGED <<stage, ALGORITHM_ID, database, call, procs>>

NextConc ==
    \/ \E store \in ConcStores : AttachDatabase(store)
    \/ \E p \in Procs : Begin(p)
    \/ \E p \in Procs : Finish(p)
    \/ \E d \in ConcSteps : Wait(d)

SpecConc == Init /\ [][NextConc]_vars

(***************************************************************************)
(* Vocabulary of the properties                                            *)
(***************************************************************************)
\* self._database is a store.
Attached == database # None

\* The last step was a call for client c, made with a store attached.  The
\* frame is dropped when the clock advances and when the store is attached,
\* so the call was made at now against the database as it is.
Checked(c) == Attached /\ call.op = "incrementRate" /\ call.client = c

\* Algorithm 1 (decay rate) or algorithm 2 (token bucket) is selected.
RateLimited == ALGORITHM_ID \in {_A1_ALGORITHM_ID, _ALGORITHM_ID_A2}

\* This step is a call of incrementRate for c (the clock stands still in it).
IsCall(c) == now' = now /\ call'.op = "incrementRate" /\ call'.client = c

\* The database holds an unexpired record of c with the extended block.
LiveExtended(c) ==
    /\ Attached
    /\ database[c] # None
    /\ database[c][1].data[4] = STATUS_EXTENDED_BLOCK
    /\ now < database[c][1].expires

\* The call found the threshold exceeded: the new rate at or above the
\* maximum rate, or the replenished allowance below 1 (the status algorithm
\* 2 computes is STATUS_NO_BLOCK exactly when it is not).
Exceeded ==
    /\ call.timed
    /\ IF ALGORITHM_ID = _A1_ALGORITHM_ID
       THEN RatGE(call.x, RatOfInt(_A1_MAXIMUM_RATE))
       ELSE call.status # STATUS_NO_BLOCK

\* The record of c a get would return now, and its fields.
Record(c) == DatabaseGet(database, c, now)

(***************************************************************************)
(* C1. Once the stored record of a client has the extended block, every    *)
(* call for that client under algorithm 1 or 2 returns                     *)
(* STATUS_EXTENDED_BLOCK as long as the record has not expired, however    *)
(* long after the record was set: it reads the clock and computes no new   *)
(* rate or allowance, writes nothing, and leaves the database as it was.   *)
(***************************************************************************)
C1_ExtendedBlockIsTerminal ==
    [][\A c \in Clients :
         (RateLimited /\ LiveExtended(c) /\ IsCall(c)) =>
            /\ call'.ret = <<STATUS_EXTENDED_BLOCK>>
            /\ call'.raised = ""
            /\ ~call'.timed
            /\ call'.x = database[c][1].data[1]
            /\ call'.writes = 0
            /\ database' = database]_vars

\* A call returned the extended block more than a normal expiration after
\* the record was last set.
C1_Witness ==
    /\ RateLimited
    /\ call.op = "incrementRate"
    /\ call.ret = <<STATUS_EXTENDED_BLOCK>>
    /\ now - call.last > _A1_EXPIRATION

(***************************************************************************)
(* C2. A call for a valid client that has no stored record (never seen or  *)
(* expired) returns STATUS_NO_BLOCK under algorithms 1 and 2 and leaves a  *)
(* record with status STATUS_NO_BLOCK and 0 excesses.                      *)
(***************************************************************************)
C2_FreshClientAllowed ==
    \A c \in Clients :
        (RateLimited /\ Checked(c) /\ call.data = None) =>
            /\ call.ret = <<STATUS_NO_BLOCK>>
            /\ Record(c) # None
            /\ Record(c)[1][3] = 0
            /\ Record(c)[1][4] = STATUS_NO_BLOCK

(***************************************************************************)
(* C3. Token bucket burst: a client with no record starts with an          *)
(* allowance of _A2_REQUESTS whatever the clock shows, so its first call   *)
(* is allowed and leaves _A2_REQUESTS - 1; a call made with no time        *)
(* elapsed since the record was set is allowed while the allowance is at   *)
(* least 1 and gets the short block after that.                            *)
(***************************************************************************)
C3_TokenBucketBurst ==
    \A c \in Clients :
        (ALGORITHM_ID = _ALGORITHM_ID_A2 /\ Checked(c)) =>
            /\ call.data = None =>
                 /\ call.ret = <<STATUS_NO_BLOCK>>
                 /\ call.x = RatOfInt(_A2_REQUESTS - 1)
            /\ ( /\ call.data # None
                 /\ call.data[1][2] = now
                 /\ call.data[1][3] = 0
                 /\ call.data[1][4] = STATUS_NO_BLOCK ) =>
                 call.ret = IF RatGE(call.data[1][1], RatOfInt(1))
                            THEN <<STATUS_NO_BLOCK>>
                            ELSE <<STATUS_SHORT_BLOCK>>

(***************************************************************************)
(* C4. Decay rate reset: a call under algorithm 1 that does not find the   *)
(* extended block and computes a new rate below _A1_MAXIMUM_RATE returns   *)
(* STATUS_NO_BLOCK and stores STATUS_NO_BLOCK, also when the stored status *)
(* was STATUS_SHORT_BLOCK.                                                 *)
(***************************************************************************)
C4_DecayRateReset ==
    \A c \in Clients :
        ( /\ ALGORITHM_ID = _A1_ALGORITHM_ID
          /\ Checked(c)
          /\ call.timed
          /\ RatLT(call.x, RatOfInt(_A1_MAXIMUM_RATE)) ) =>
            /\ call.ret = <<STATUS_NO_BLOCK>>
            /\ Record(c) # None
            /\ Record(c)[1][4] = STATUS_NO_BLOCK

(***************************************************************************)
(* C5. Token bucket recovery: a call that finds the short block stored and *)
(* comes at least _A2_PERIOD seconds after the record was set returns      *)
(* STATUS_NO_BLOCK and stores the allowance _A2_REQUESTS - 1; a call that  *)
(* finds the short block with allowance 0 one second after the record was  *)
(* set returns STATUS_NO_BLOCK too.                                        *)
(***************************************************************************)
C5_TokenBucketRecovery ==
    \A c \in Clients :
        ( /\ ALGORITHM_ID = _ALGORITHM_ID_A2
          /\ Checked(c)
          /\ call.data # None
          /\ call.data[1][4] = STATUS_SHORT_BLOCK ) =>
            /\ now - call.data[1][2] >= _A2_PERIOD =>
                 /\ call.ret = <<STATUS_NO_BLOCK>>
                 /\ Record(c) # None
                 /\ Record(c)[1][1] = RatOfInt(_A2_REQUESTS - 1)
            /\ (now - call.data[1][2] = 1 /\ call.data[1][1] = RatOfInt(0)) =>
                 call.ret = <<STATUS_NO_BLOCK>>

(***************************************************************************)
(* C6. While the record of a client persists, a call under algorithm 1 or  *)
(* 2 that gets past the extended block test leaves the stored excesses one *)
(* higher when the threshold is exceeded and the status read was           *)
(* STATUS_NO_BLOCK, and as they were in every other case.                  *)
(***************************************************************************)
C6_ExcessCount ==
    \A c \in Clients :
        (RateLimited /\ Checked(c) /\ call.data # None /\ call.timed) =>
            /\ Record(c) # None
            /\ Record(c)[1][3] =
                 IF Exceeded /\ call.data[1][4] = STATUS_NO_BLOCK
                 THEN call.data[1][3] + 1
                 ELSE call.data[1][3]

(***************************************************************************)
(* C7. Escalation: a call under algorithm 1 or 2 that finds the threshold  *)
(* exceeded returns STATUS_EXTENDED_BLOCK when the maximum excesses are    *)
(* not -1 and the excesses, incremented or not, are above them, and        *)
(* returns STATUS_SHORT_BLOCK otherwise.                                   *)
(***************************************************************************)
C7_EscalationRule ==
    \A c \in Clients :
        (RateLimited /\ Checked(c) /\ Exceeded) =>
            call.ret = IF /\ _A1_MAXIMUM_EXCESSES # -1
                          /\ call.excesses > _A1_MAXIMUM_EXCESSES
                       THEN <<STATUS_EXTENDED_BLOCK>>
                       ELSE <<STATUS_SHORT_BLOCK>>

(***************************************************************************)
(* C9. Every call with a valid client identifier makes exactly one         *)
(* database read and exactly one database write under algorithms 1 and 2,  *)
(* whatever the stored status, and neither under algorithm 3.              *)
(***************************************************************************)
C9_StoreAccessCount ==
    \A c \in Clients :
        Checked(c) =>
            /\ RateLimited => (call.reads = 1 /\ call.writes = 1)
            /\ ALGORITHM_ID = _A3_ALGORITHM_ID => (call.reads = 0 /\ call.writes = 0)

(***************************************************************************)
(* C10. A call with an empty or missing client identifier raises the       *)
(* ValueError of the parameter check and returns nothing, makes no         *)
(* database read and no database write, and leaves the database as it was, *)
(* whichever algorithm is selected.                                        *)
(***************************************************************************)
C10_InvalidIdentifier ==
    [][\A cid \in Identifiers :
         (Falsy(cid) /\ IsCall(cid)) =>
            /\ call'.raised = "ValueError: Missing or invalid client identifier"
            /\ call'.ret = None
            /\ call'.reads = 0
            /\ call'.writes = 0
            /\ database' = database]_vars

\* A call with the missing identifier was refused while algorithm 1 is
\* selected and the database holds a record.
C10_Witness ==
    /\ ALGORITHM_ID = _A1_ALGORITHM_ID
    /\ call.op = "incrementRate"
    /\ call.client = NoneId
    /\ call.raised = "ValueError: Missing or invalid client identifier"
    /\ Attached
    /\ \E c \in Clients : database[c] # None

(***************************************************************************)
(* C11. With algorithm 3 (no rate limit) selected, every call with a valid *)
(* client identifier returns STATUS_NO_BLOCK and makes no database read    *)
(* and no database write, whatever the database holds and whenever the     *)
(* call is made.                                                           *)
(***************************************************************************)
C11_PassThrough ==
    [][\A c \in Clients :
         (ALGORITHM_ID = _A3_ALGORITHM_ID /\ IsCall(c)) =>
            /\ call'.ret = <<STATUS_NO_BLOCK>>
            /\ call'.raised = ""
            /\ call'.reads = 0
            /\ call'.writes = 0
            /\ database' = database]_vars

\* A call was let through, after the clock moved, for a client whose stored
\* record has the extended block.
C11_Witness ==
    /\ ALGORITHM_ID = _A3_ALGORITHM_ID
    /\ ticks > 0
    /\ \E c \in Clients :
         /\ Checked(c)
         /\ call.ret = <<STATUS_NO_BLOCK>>
         /\ LiveExtended(c)

C13_LostUpdate ==
    ( /\ RateLimited
      /\ \A p \in Procs : procs[p].pc = "done" /\ procs[p].frame.timed
      /\ procs[1].data = procs[2].data ) =>
        /\ \A p \in Procs : procs[p].frame.writes = 1
        /\ database[ConcClient] # None
        /\ \E p \in Procs :
             /\ database[ConcClient][1].data[1] = procs[p].frame.x
             /\ database[ConcClient][1].data[3] = procs[p].frame.excesses
             /\ database[ConcClient][1].data[4] = procs[p].frame.status

(***************************************************************************)
(* C15. Token bucket persistence: every call under algorithm 2 that gets   *)
(* past the permanent block test completes its database write, and the     *)
(* record it leaves holds the allowance it computed as first field.        *)
(***************************************************************************)
C15_TokenBucketPersistence ==
    \A c \in Clients :
        (ALGORITHM_ID = _ALGORITHM_ID_A2 /\ Checked(c) /\ call.timed) =>
            /\ call.raised = ""
            /\ call.writes = 1
            /\ Record(c) # None
            /\ Record(c)[1][1] = call.x

(***************************************************************************)
(* C16. Under algorithm 1 the extended block is reached by exceeding too   *)
(* often: the call in which a client, its rate having fallen back below    *)
(* the maximum (status STATUS_NO_BLOCK), exceeds the maximum rate for the  *)
(* (_A1_MAXIMUM_EXCESSES + 1)-th time within the life of its record        *)
(* returns STATUS_EXTENDED_BLOCK and stores it.                            *)
(***************************************************************************)
C16_ExtendedBlockReached ==
    \A c \in Clients :
        ( /\ ALGORITHM_ID = _A1_ALGORITHM_ID
          /\ Checked(c)
          /\ call.data # None
          /\ call.data[1][4] = STATUS_NO_BLOCK
          /\ Exceeded
          /\ call.excesses = _A1_MAXIMUM_EXCESSES + 1 ) =>
            /\ call.ret = <<STATUS_EXTENDED_BLOCK>>
            /\ Record(c) # None
            /\ Record(c)[1][4] = STATUS_EXTENDED_BLOCK

(***************************************************************************)
(* C17. Isolation: a call for client c under algorithm 1 or 2 that gets    *)
(* past the permanent block test completes one write, of the record of c   *)
(* with the time of the call, and leaves the record of every other client  *)
(* as it was.                                                              *)
(***************************************************************************)
C17_ClientIsolation ==
    [][\A c \in Clients :
         (RateLimited /\ IsCall(c) /\ call'.timed) =>
            /\ call'.raised = ""
            /\ call'.writes = 1
            /\ database'[c] # None
            /\ database'[c][1].data[2] = now
            /\ \A o \in Clients \ {c} : database'[o] = database[o]]_vars

\* What a call of algorithm 2 that read the clock started from: the fields
\* of the record it got, or the initial values, and the allowance they
\* replenish to at now, capped at _A2_REQUESTS.
C19_Allowance0 == IF call.data # None THEN call.data[1][1] ELSE _A2_ALLOWANCE

C19_Accrued ==
    RatAdd(C19_Allowance0, RatMul(RatOfInt(now - call.last), _A2_ALLOWANCE))

C19_Replenished ==
    IF RatGT(C19_Accrued, RatOfInt(_A2_REQUESTS))
    THEN RatOfInt(_A2_REQUESTS)
    ELSE C19_Accrued

(***************************************************************************)
(* C19. Token bucket allowance: when the clock has not gone backwards      *)
(* since the record was set, the allowance a call under algorithm 2        *)
(* computes for the record it is about to write, for a client with or      *)
(* without a record, is from 0 to _A2_REQUESTS; the request is admitted    *)
(* exactly when the replenished, capped allowance is at least 1, and the   *)
(* allowance is then the replenished one less exactly 1; a blocked request *)
(* leaves the replenished allowance, which is below 1, unspent.            *)
(***************************************************************************)
C19_AllowanceBounds ==
    \A c \in Clients :
        ( /\ ALGORITHM_ID = _ALGORITHM_ID_A2
          /\ Checked(c)
          /\ call.timed
          /\ now >= call.last ) =>
            /\ RatGE(call.x, RatOfInt(0))
            /\ ~RatGT(call.x, RatOfInt(_A2_REQUESTS))
            /\ call.status = STATUS_NO_BLOCK <=> RatGE(C19_Replenished, RatOfInt(1))
            /\ call.status = STATUS_NO_BLOCK =>
                 call.x = RatSub(C19_Replenished, RatOfInt(1))
            /\ call.status # STATUS_NO_BLOCK =>
                 /\ call.x = C19_Replenished
                 /\ RatLT(call.x, RatOfInt(1))

\* A call found a record whose allowance had accrued beyond _A2_REQUESTS
\* since it was set, was admitted, and computed _A2_REQUESTS - 1.
C19_Witness ==
    /\ ALGORITHM_ID = _ALGORITHM_ID_A2
    /\ \E c \in Clients : Checked(c)
    /\ call.timed
    /\ call.data # None
    /\ RatGT(C19_Accrued, RatOfInt(_A2_REQUESTS))
    /\ call.status = STATUS_NO_BLOCK
    /\ call.x = RatOfInt(_A2_REQUESTS - 1)

(***************************************************************************)
(* C20. Extended blocks end: a record with the extended block expires the  *)
(* extended block expiration after it was set, whatever calls were made    *)
(* meanwhile, and a call made once it has expired finds no record and      *)
(* returns STATUS_NO_BLOCK.                                                *)
(***************************************************************************)
C20_ExtendedBlockEnds ==
    \A c \in Clients :
        ( /\ RateLimited
          /\ Checked(c)
          /\ database[c] # None
          /\ database[c][1].data[4] = STATUS_EXTENDED_BLOCK
          /\ now >= database[c][1].expires ) =>
            /\ database[c][1].expires =
                 database[c][1].data[2] + _A1_EXTENDED_BLOCK_EXPIRATION
            /\ call.data = None
            /\ call.ret = <<STATUS_NO_BLOCK>>

====
